---- MODULE Spec2Model ----
(***************************************************************************)
(* Room lifecycle of jupyter_collaboration's websocket handler             *)
(* (src/jupyter_collaboration/handlers.py).                                *)
(*                                                                         *)
(* One handler object exists per connection.  The handler methods run on   *)
(* one asyncio event loop: a synchronous method (initialize, on_message,   *)
(* on_close) is one atomic step, a coroutine is cut at each await.         *)
(* Tasks created with asyncio.create_task (the serve task of a connection, *)
(* the _clean_room task of a closing connection) run as separate steps.    *)
(***************************************************************************)
EXTENDS Naturals, Sequences, FiniteSets

\* ------------------------------------------------------------------ bounds
MaxConnections == 3       \* connections (handler objects) ever made
MaxHandlers == 2          \* connections in the behaviours of Spec
MaxMsgs == 2              \* inbound frames delivered in one behaviour
MsgHandlers == 2          \* connections in the behaviours that carry frames
MaxStale == 1             \* connections that present a stale session
MaxPaths == 3             \* paths the session endpoint is asked about
MaxTime == 3              \* external changes of the file behind the loader
MaxObservers == 2         \* observers of the loader
MaxNotify == 3            \* notify() calls (explicit or by the watcher)

Handlers == 1..MaxConnections
Observers == 1..MaxObservers
Insts == 1..MaxConnections \* Room objects: a handler constructs at most one
NoRoom == 0               \* no Room object (None / attribute deleted)
NoTask == 0               \* room.cleaner is None

\* ------------------------------------------------------------- identities
\* A room identity is the last path segment of the request, held here as the
\* sequence of its ":"-separated parts, so that "json:notebook:f1" is
\* <<"json", "notebook", "f1">> and count(":") is Len - 1.
DocA == <<"json", "notebook", "f1">>
DocB == <<"text", "file", "f1">>
Transient == <<"JupyterLab", "globalAwareness">>
RoomIds == {DocA, DocB, Transient}

SERVER_SESSION == "session-current"
STALE_SESSION == "session-stale"
SessionIds == {SERVER_SESSION, STALE_SESSION}

None == "None"
DelayOn == "delay"        \* document_cleanup_delay is a number of seconds
CleanupDelays == {None, DelayOn}

\* YMessageType: the first byte of a frame.
SYNC == 0
AWARENESS == 1
\* Awareness updates: one adding user 1 (with a name), one removing user 1.
AddUser == 1
RemoveUser == 2
\* An awareness frame adding a client whose state has a "user" entry without a
\* "name" in it.
AddUserNoName == 3
EmptyFrame == <<>>        \* a frame of no bytes
\* The frames of the behaviours that follow the relay of a frame ...
Messages == {<<SYNC, 7>>, <<AWARENESS, AddUser>>, EmptyFrame}
\* ... and of those that follow the connected-users directory.
AwarenessMessages == {<<AWARENESS, AddUser>>, <<AWARENESS, RemoveUser>>,
                      <<AWARENESS, AddUserNoName>>}
EndOfStream == <<>>       \* b"": the falsy frame on_close enqueues

VARIABLES
    \* per handler (connection)
    hpc,            \* "new" | "constructed" | "opening" | "opened" | "failed"
                    \*   | "forbidden"
    room_id,        \* self._room_id
    hroom,          \* self.room: a Room object (NoRoom before initialize)
    session,        \* the sessionId query argument given at open
    closed,         \* on_close was called
    rejected,       \* self.close(1003, ...) was called
    message_queue,  \* self._message_queue
    serve,          \* the serve task: "none" | "created" | "serving" | "done"
                    \*   | "failed"
    cleantask,      \* the _clean_room task: "none" | "created" | "sleeping"
                    \*   | "cancelled" | "returned" | "done" | "failed"
    \* per Room object
    nrooms,         \* Room objects constructed so far
    rid,            \* room.room_id
    clients,        \* room.clients (a list of handlers)
    cleaner,        \* room.cleaner: the handler whose _clean_room task it is
    ready,          \* room.initialize() has completed
    doc,            \* frames the room has relayed
    \* process-wide
    rooms,          \* websocket_server.rooms: identity -> Room object
    loaders,        \* file_loaders: identity -> [exists, subs] (subs: number
                    \*   of subscriptions of the loader)
    events,         \* event_logger: how many times each event was emitted
    connected_users,
    ypatch_nb,
    cleanup_delay,
    add_failed,     \* add_room was called for an identity that has an entry
    \* session endpoint
    storage,        \* paths that exist
    file_index,     \* file_id_manager: path -> id (0: not indexed)
    response,       \* last response of DocSessionHandler.put
    \* history of the frames of each connection
    received,       \* frames passed to on_message, in arrival order
    yielded,        \* frames __anext__ returned, in order
    write_failures, \* "Failed to write message" records logged by send
    \* one Content Loader (FileLoader) and the file behind it
    file_mtime,     \* last_modified of the file in storage
    loader,         \* "absent" | "live" | "cleaned"
    last_modified,  \* the timestamp the loader observed last
    subscriptions,  \* observers registered with observe
    triggered,      \* how many times each observer was called back
    watcher,        \* the poll task: "none" | "polling" | "cancelled"
    notified        \* notify() calls so far

hvars == <<hpc, room_id, hroom, session, closed, rejected, message_queue>>
tvars == <<serve, cleantask>>
rvars == <<nrooms, rid, clients, cleaner, ready, doc>>
gvars == <<rooms, loaders, events, connected_users, ypatch_nb, cleanup_delay, add_failed>>
svars == <<storage, file_index, response>>
mvars == <<received, yielded, write_failures>>
lvars == <<file_mtime, loader, last_modified, subscriptions, triggered, watcher, notified>>
vars == <<hvars, tvars, rvars, gvars, svars, mvars, lvars>>

\* ------------------------------------------------------------- utilities
Remove(seq, x) == SelectSeq(seq, LAMBDA y: y # x)

\* str.count(":") of an identity.
count_colon(r) == IF r = <<>> THEN 0 ELSE Len(r) - 1

\* utils.decode_file_path: split at the first two ":"; the rest is the file id.
decode_file_path(r) == <<r[1], r[2], SubSeq(r, 3, Len(r))>>

\* The variant of a Room object (isinstance(room, DocumentRoom)); the
\* variant is fixed at construction from the shape of the identity.
IsDocumentRoom(i) == count_colon(rid[i]) >= 2

\* Events of the observability stream: {level, room, action, msg}.
Event(level, r, action, msg) == [level |-> level, room |-> r, action |-> action, msg |-> msg]
ConflictWarning(r) == Event("WARNING", r, None, "another collaborative session")
ClientConnected(r) == Event("INFO", r, "initialize", "New client connected.")
RoomDeleted(r) == Event("INFO", r, "clean", "Room deleted.")
LoaderDeleted(r) == Event("INFO", r, "clean", "Loader deleted.")
AllEvents == UNION {{ConflictWarning(r), ClientConnected(r), RoomDeleted(r), LoaderDeleted(r)} : r \in RoomIds}
\* event_logger.emit(e) on the emission counts ev.
Emit(ev, e) == [ev EXCEPT ![e] = @ + 1]

\* ---------------------------------------------------------- room registry
room_exists(r) == rooms[r] # NoRoom
get_room(r) == rooms[r]

\* ---------------------------------------------------------- loader registry
NoLoader == [exists |-> FALSE, subs |-> 0]
\* Loaders whose identity decodes to file_id.
get_loaders_from_file_id(file_id) ==
    {r \in RoomIds : /\ loaders[r].exists
                     /\ count_colon(r) >= 2
                     /\ decode_file_path(r)[3] = file_id}
\* file_loaders[r]: the loader of r, created on first access.
LoadersAfterGet(ld, r) == IF ld[r].exists THEN ld ELSE [ld EXCEPT ![r] = [exists |-> TRUE, subs |-> 0]]

\* ------------------------------------------------------- session endpoint
Paths == 1..MaxPaths
FileIds == 1..(MaxPaths + 1)       \* ids the file id manager can mint
NotIndexed == 0
NoResponse == [status |-> 0, path |-> 0, fileId |-> NotIndexed, sessionId |-> ""]

\* ------------------------------------------------------------------- Init
Init ==
    /\ hpc = [h \in Handlers |-> "new"]
    /\ room_id = [h \in Handlers |-> <<>>]
    /\ hroom = [h \in Handlers |-> NoRoom]
    /\ session = [h \in Handlers |-> ""]
    /\ closed = [h \in Handlers |-> FALSE]
    /\ rejected = [h \in Handlers |-> FALSE]
    /\ message_queue = [h \in Handlers |-> <<>>]
    /\ serve = [h \in Handlers |-> "none"]
    /\ cleantask = [h \in Handlers |-> "none"]
    /\ nrooms = 0
    /\ rid = [i \in Insts |-> <<>>]
    /\ clients = [i \in Insts |-> <<>>]
    /\ cleaner = [i \in Insts |-> NoTask]
    /\ ready = [i \in Insts |-> FALSE]
    /\ doc = [i \in Insts |-> <<>>]
    /\ rooms = [r \in RoomIds |-> NoRoom]
    /\ loaders = [r \in RoomIds |-> NoLoader]
    /\ events = [e \in AllEvents |-> 0]
    /\ connected_users = {}
    /\ ypatch_nb = 0
    /\ cleanup_delay \in CleanupDelays
    /\ add_failed = FALSE
    /\ storage = {}
    /\ file_index = [p \in 1..MaxPaths |-> 0]
    /\ response = NoResponse
    /\ received = [h \in Handlers |-> <<>>]
    /\ yielded = [h \in Handlers |-> <<>>]
    /\ write_failures = 0
    /\ file_mtime = 0
    /\ loader = "absent"
    /\ last_modified = 0
    /\ subscriptions = {}
    /\ triggered = [o \in Observers |-> 0]
    /\ watcher = "none"
    /\ notified = 0

\* ------------------------------------------------------------- initialize
\* initialize without the look-up of line 76: every handler makes a room.
InitializeNeverFindsRoom(r) == FALSE

\* Line 76: the handler takes the registered room instead of making one.
InitializeFindsRoom(r) == room_exists(r)

\* initialize without the conflict check of line 83.
InitializeNeverWarns(r) == FALSE

\* Line 83: another loader already serves this file id.
InitializeWarns(r) == get_loaders_from_file_id(decode_file_path(r)[3]) # {}

\* YDocWebSocketHandler.initialize, for a request whose path ends in r.  It
\* has no await: the whole method is one step.  Handlers are numbered in the
\* order they are constructed.
initialize(h, r) ==
    /\ hpc[h] = "new"
    /\ \A g \in Handlers : g < h => hpc[g] # "new"
    /\ room_id' = [room_id EXCEPT ![h] = r]
    /\ IF InitializeFindsRoom(r)
       THEN /\ hroom' = [hroom EXCEPT ![h] = get_room(r)]
            /\ hpc' = [hpc EXCEPT ![h] = "constructed"]
            /\ UNCHANGED <<events, nrooms, rid, rooms, loaders, add_failed>>
       ELSE LET i == nrooms + 1
                isdoc == count_colon(r) >= 2
            IN  /\ events' = IF isdoc /\ InitializeWarns(r) THEN Emit(events, ConflictWarning(r)) ELSE events
                /\ loaders' = IF isdoc THEN LoadersAfterGet(loaders, r) ELSE loaders
                /\ nrooms' = i
                /\ rid' = [rid EXCEPT ![i] = r]
                /\ hroom' = [hroom EXCEPT ![h] = i]
                \* add_room: fails if the identity already has an entry
                /\ IF room_exists(r)
                   THEN /\ add_failed' = TRUE
                        /\ hpc' = [hpc EXCEPT ![h] = "failed"]
                        /\ UNCHANGED rooms
                   ELSE /\ rooms' = [rooms EXCEPT ![r] = i]
                        /\ hpc' = [hpc EXCEPT ![h] = "constructed"]
                        /\ UNCHANGED add_failed
    /\ UNCHANGED <<session, closed, rejected, message_queue, tvars>>
    /\ UNCHANGED <<clients, cleaner, ready, doc>>
    /\ UNCHANGED <<connected_users, ypatch_nb, cleanup_delay, svars, mvars, lvars>>

\* -------------------------------------------------------------------- get
\* YDocWebSocketHandler.get for a request without a user (lines 143-145):
\* HTTP 403, the connection is never opened.  The handler object exists by
\* then: the framework calls initialize from the constructor.  A request with
\* a user goes on to open, below.
get_forbidden(h) ==
    /\ hpc[h] = "constructed"
    /\ hpc' = [hpc EXCEPT ![h] = "forbidden"]
    /\ UNCHANGED <<room_id, hroom, session, closed, rejected, message_queue, tvars>>
    /\ UNCHANGED <<rvars, gvars, svars, mvars, lvars>>

\* ------------------------------------------------------------------- open
\* Line 159: the session the client presents is not this process's.
SessionExpired(sid) == SERVER_SESSION # sid

\* Lines 163-164: task.cancel() on room.cleaner; cancelling a task that has
\* finished changes nothing.
CancelCleaner(i) ==
    IF cleaner[i] # NoTask /\ cleantask[cleaner[i]] \in {"created", "sleeping"}
    THEN [cleantask EXCEPT ![cleaner[i]] = "cancelled"]
    ELSE cleantask

\* YDocWebSocketHandler.open up to its await of room.initialize() (lines
\* 152-167); for a TransientRoom the coroutine ends at line 156.
open(h, sid) ==
    /\ hpc[h] = "constructed"
    /\ SessionExpired(sid) => Cardinality({g \in Handlers : rejected[g]}) < MaxStale
    /\ serve' = [serve EXCEPT ![h] = "created"]
    /\ IF IsDocumentRoom(hroom[h])
       THEN /\ session' = [session EXCEPT ![h] = sid]
            /\ rejected' = [rejected EXCEPT ![h] = SessionExpired(sid)]
            /\ cleantask' = CancelCleaner(hroom[h])
            /\ hpc' = [hpc EXCEPT ![h] = "opening"]
       ELSE /\ hpc' = [hpc EXCEPT ![h] = "opened"]
            /\ UNCHANGED <<session, rejected, cleantask>>
    /\ UNCHANGED <<events, room_id, hroom, closed, message_queue>>
    /\ UNCHANGED <<rvars, rooms, loaders, connected_users, ypatch_nb, cleanup_delay, add_failed, svars, mvars, lvars>>

\* DocumentRoom.initialize: loads the content, replays the update log and
\* subscribes the room to its loader (keyed by the room identity).
RoomInitialized(i) ==
    /\ ready' = [ready EXCEPT ![i] = TRUE]
    /\ loaders' = [loaders EXCEPT ![rid[i]] = [exists |-> TRUE, subs |-> 1]]

\* open resumes when room.initialize() has completed (lines 167-169).
open_resume(h) ==
    /\ hpc[h] = "opening"
    /\ RoomInitialized(hroom[h])
    /\ events' = Emit(events, ClientConnected(room_id[h]))
    /\ hpc' = [hpc EXCEPT ![h] = "opened"]
    /\ UNCHANGED <<room_id, hroom, session, closed, rejected, message_queue, tvars>>
    /\ UNCHANGED <<nrooms, rid, clients, cleaner, doc>>
    /\ UNCHANGED <<rooms, connected_users, ypatch_nb, cleanup_delay, add_failed, svars, mvars, lvars>>

\* ------------------------------------------------------------------ serve
\* The serve task of a connection (created at line 152): it registers the
\* connection as a client of its room ...
serve_start(h) ==
    /\ serve[h] = "created"
    /\ serve' = [serve EXCEPT ![h] = "serving"]
    /\ clients' = [clients EXCEPT ![hroom[h]] = Append(@, h)]
    /\ UNCHANGED <<events, hvars, cleantask, nrooms, rid, cleaner, ready, doc>>
    /\ UNCHANGED <<rooms, loaders, connected_users, ypatch_nb, cleanup_delay, add_failed, svars, mvars, lvars>>

\* __anext__ testing the first byte of the frame (not message[0]) as well:
\* the type byte of a sync frame is 0.
anext_stops_on_zero(message) == message = <<>> \/ message[1] = SYNC

\* __anext__ (lines 132-137): the next frame of the queue, or the end of the
\* iteration when the frame is falsy.
anext_stops(message) == message = <<>>

\* write_message (called at line 177) raises WebSocketClosedError on a
\* connection that is closed or closing.
WriteFails(c) == closed[c] \/ rejected[c]

\* send without the try of lines 176-179: the error of write_message reaches
\* the caller.
send_unguarded(c) == [raised |-> WriteFails(c), logged |-> FALSE]

\* YDocWebSocketHandler.send (lines 171-179): what the caller sees and whether
\* a failure was logged.
send(c) == [raised |-> FALSE, logged |-> WriteFails(c)]

\* ... relays each frame the iterator yields (the room takes it and the frame
\* is forwarded with send to every client of the room; an error raised by a
\* send ends the task) ...
serve_relay(h) ==
    LET message == Head(message_queue[h])
        to == {c \in Handlers : \E k \in 1..Len(clients[hroom[h]]) : clients[hroom[h]][k] = c}
    IN  /\ serve[h] = "serving"
        /\ message_queue[h] # <<>>
        /\ ~anext_stops(message)
        /\ yielded' = [yielded EXCEPT ![h] = Append(@, message)]
        /\ doc' = [doc EXCEPT ![hroom[h]] = Append(@, message)]
        /\ message_queue' = [message_queue EXCEPT ![h] = Tail(@)]
        /\ write_failures' = write_failures + Cardinality({c \in to : send(c).logged})
        /\ serve' = [serve EXCEPT ![h] = IF \E c \in to : send(c).raised THEN "failed" ELSE @]
        /\ UNCHANGED <<events, hpc, room_id, hroom, session, closed, rejected, cleantask>>
        /\ UNCHANGED <<nrooms, rid, clients, cleaner, ready, received>>
        /\ UNCHANGED <<rooms, loaders, connected_users, ypatch_nb, cleanup_delay, add_failed, svars, lvars>>

\* ... and removes the connection from the clients when the iteration ends.
serve_end(h) ==
    /\ serve[h] = "serving"
    /\ message_queue[h] # <<>>
    /\ anext_stops(Head(message_queue[h]))
    /\ message_queue' = [message_queue EXCEPT ![h] = Tail(@)]
    /\ clients' = [clients EXCEPT ![hroom[h]] = Remove(@, h)]
    /\ serve' = [serve EXCEPT ![h] = "done"]
    /\ UNCHANGED <<events, hpc, room_id, hroom, session, closed, rejected, cleantask>>
    /\ UNCHANGED <<nrooms, rid, cleaner, ready, doc>>
    /\ UNCHANGED <<rooms, loaders, connected_users, ypatch_nb, cleanup_delay, add_failed, svars, mvars, lvars>>

\* ------------------------------------------------------------------- recv
\* YDocWebSocketHandler.recv (lines 181-186): takes the next item of the
\* queue, whatever it is, and returns it to its caller; the call waits while
\* the queue is empty.  The item is lost to the iteration of the serve task.
recv(h) ==
    /\ hpc[h] # "new"
    /\ message_queue[h] # <<>>
    /\ message_queue' = [message_queue EXCEPT ![h] = Tail(@)]
    /\ UNCHANGED <<events, hpc, room_id, hroom, session, closed, rejected, tvars, rvars>>
    /\ UNCHANGED <<rooms, loaders, connected_users, ypatch_nb, cleanup_delay, add_failed, svars, mvars, lvars>>

\* ------------------------------------------------------------- on_message
\* Lines 193-209: the connected-users directory after an awareness frame.
\* room.awareness.get_changes decodes the payload: AddUser adds user 1 with a
\* name, RemoveUser removes user 1.
UsersAfter(message) ==
    IF message[1] # AWARENESS THEN connected_users
    ELSE IF message[2] = AddUser THEN connected_users \cup {1}
    ELSE IF message[2] = RemoveUser THEN connected_users \ {1}
    ELSE connected_users

\* Line 192, message[0]: IndexError on a frame of no bytes.  Line 202,
\* name = u["user"]["name"]: KeyError when the added state has a "user"
\* without a "name".
on_message_raises(message) ==
    \/ message = EmptyFrame
    \/ message[1] = AWARENESS /\ message[2] = AddUserNoName

\* The framework aborts a connection whose on_message raised: no frame is
\* delivered after it.
Aborted(h) == received[h] # <<>> /\ on_message_raises(received[h][Len(received[h])])

\* Frames delivered so far to the connections 1..h.
RECURSIVE Delivered(_)
Delivered(h) == IF h = 0 THEN 0 ELSE Len(received[h]) + Delivered(h - 1)

\* YDocWebSocketHandler.on_message: frames arrive once open has returned and
\* until the connection is closed.  An exception leaves the method before
\* put_nowait (line 218).
on_message(h, message) ==
    /\ hpc[h] = "opened"
    /\ ~closed[h]
    /\ ~Aborted(h)
    /\ Delivered(MaxConnections) < MaxMsgs
    /\ received' = [received EXCEPT ![h] = Append(@, message)]
    /\ IF on_message_raises(message)
       THEN UNCHANGED <<connected_users, message_queue, ypatch_nb>>
       ELSE /\ connected_users' = UsersAfter(message)
            /\ message_queue' = [message_queue EXCEPT ![h] = Append(@, message)]
            /\ ypatch_nb' = ypatch_nb + 1
    /\ UNCHANGED <<events, hpc, room_id, hroom, session, closed, rejected, tvars, rvars>>
    /\ UNCHANGED <<rooms, loaders, cleanup_delay, add_failed, svars, lvars, yielded, write_failures>>

\* --------------------------------------------------------------- on_close
\* Line 227 testing membership instead of equality: self in room.clients.
IsSomeClient(h) == \E k \in 1..Len(clients[hroom[h]]) : clients[hroom[h]][k] = h

\* Line 227: room.clients == [self].
IsLastClient(h) == clients[hroom[h]] = <<h>>

\* YDocWebSocketHandler.on_close.
on_close(h) ==
    /\ hpc[h] \in {"opening", "opened"}
    /\ ~closed[h]
    /\ closed' = [closed EXCEPT ![h] = TRUE]
    /\ message_queue' = [message_queue EXCEPT ![h] = Append(@, EndOfStream)]
    /\ IF IsDocumentRoom(hroom[h]) /\ IsLastClient(h)
       THEN /\ cleantask' = [cleantask EXCEPT ![h] = "created"]
            /\ cleaner' = [cleaner EXCEPT ![hroom[h]] = h]
       ELSE UNCHANGED <<cleantask, cleaner>>
    /\ UNCHANGED <<events, hpc, room_id, hroom, session, rejected, serve>>
    /\ UNCHANGED <<nrooms, rid, clients, ready, doc>>
    /\ UNCHANGED <<rooms, loaders, connected_users, ypatch_nb, cleanup_delay, add_failed, svars, mvars, lvars>>

\* ------------------------------------------------------------ _clean_room
\* _clean_room without the early return of lines 259-260.
CleanupNeverDisabled == FALSE

\* Line 259: no automatic cleanup.
CleanupDisabled == cleanup_delay = None

\* _clean_room up to its await (lines 257-262).
clean_room_start(h) ==
    /\ cleantask[h] = "created"
    /\ cleantask' = [cleantask EXCEPT ![h] = IF CleanupDisabled THEN "returned" ELSE "sleeping"]
    /\ UNCHANGED <<events, hvars, serve, rvars>>
    /\ UNCHANGED <<rooms, loaders, connected_users, ypatch_nb, cleanup_delay, add_failed, svars, mvars, lvars>>

\* delete_room(room=i): removes the mapping of the room and releases its
\* loader subscription; no effect if the room is not registered any more.
RoomsAfterDelete(i) == IF rooms[rid[i]] = i THEN [rooms EXCEPT ![rid[i]] = NoRoom] ELSE rooms
LoadersAfterDelete(i) ==
    IF rooms[rid[i]] = i /\ loaders[rid[i]].exists
    THEN [loaders EXCEPT ![rid[i]].subs = 0]
    ELSE loaders

\* _clean_room once the sleep is over (lines 264-278).  self.files is not an
\* attribute of the handler: line 277 raises and the task ends there.  The
\* del self.room of line 269 is read off cleantask: the handler is closed and
\* no method of it reads the attribute again; hroom keeps the object for the
\* serve task, which holds its own reference.
clean_room_fire(h) ==
    /\ cleantask[h] = "sleeping"
    /\ rooms' = RoomsAfterDelete(hroom[h])
    /\ LET ld == LoadersAfterGet(LoadersAfterDelete(hroom[h]), room_id[h])
       IN  /\ loaders' = ld
           /\ cleantask' = [cleantask EXCEPT ![h] =
                  IF ld[room_id[h]].subs = 0 THEN "failed" ELSE "done"]
    /\ events' = Emit(events, RoomDeleted(room_id[h]))
    /\ UNCHANGED <<hvars, serve, rvars>>
    /\ UNCHANGED <<connected_users, ypatch_nb, cleanup_delay, add_failed, svars, mvars, lvars>>

\* -------------------------------------------------------------------- put
\* file_id_manager.get_id(path): the id the path is indexed under, if any.
get_id(path) == file_index[path]

\* put without the branch of lines 306-313: every call indexes the path.
PutNeverKnown(path) == FALSE

\* Line 306: the path already has an index entry.
PutKnown(path) == get_id(path) # NotIndexed

\* DocSessionHandler.put for a path; fresh is the id file_id_manager.index
\* mints when it indexes the path.
put(path, fresh) ==
    /\ fresh \notin {file_index[q] : q \in Paths}
    /\ IF PutKnown(path)
       THEN /\ response' = [status |-> 200, path |-> path, fileId |-> get_id(path),
                            sessionId |-> SERVER_SESSION]
            /\ UNCHANGED file_index
       ELSE IF path \notin storage
       THEN /\ response' = [status |-> 404, path |-> path, fileId |-> NotIndexed,
                            sessionId |-> ""]
            /\ UNCHANGED file_index
       ELSE /\ file_index' = [file_index EXCEPT ![path] = fresh]
            /\ response' = [status |-> 201, path |-> path, fileId |-> fresh,
                            sessionId |-> SERVER_SESSION]
    /\ UNCHANGED <<hvars, tvars, rvars, gvars, mvars, lvars, storage>>

\* A file appears in storage.
create_file(path) ==
    /\ path \notin storage
    /\ storage' = storage \cup {path}
    /\ UNCHANGED <<hvars, tvars, rvars, gvars, mvars, lvars, file_index, response>>

\* ------------------------------------------------------------------- Next
\* Connections and rooms: every interleaving of construction, open, close,
\* the serve tasks and the cleanup tasks of MaxHandlers connections.
Next ==
    \/ \E h \in 1..MaxHandlers, r \in RoomIds : initialize(h, r)
    \/ \E h \in 1..MaxHandlers, sid \in SessionIds : open(h, sid)
    \/ \E h \in 1..MaxHandlers : open_resume(h)
    \/ \E h \in 1..MaxHandlers : serve_start(h)
    \/ \E h \in 1..MaxHandlers : serve_end(h)
    \/ \E h \in 1..MaxHandlers : on_close(h)
    \/ \E h \in 1..MaxHandlers : clean_room_start(h)
    \/ \E h \in 1..MaxHandlers : clean_room_fire(h)

Spec == Init /\ [][Next]_vars

\* The same for MaxConnections connections to one document: clients that
\* leave and come back.
ReconnectNext ==
    \/ \E h \in Handlers : initialize(h, DocA)
    \/ \E h \in Handlers, sid \in SessionIds : open(h, sid)
    \/ \E h \in Handlers : open_resume(h)
    \/ \E h \in Handlers : serve_start(h)
    \/ \E h \in Handlers : serve_end(h)
    \/ \E h \in Handlers : on_close(h)
    \/ \E h \in Handlers : clean_room_start(h)
    \/ \E h \in Handlers : clean_room_fire(h)

ReconnectSpec == Init /\ [][ReconnectNext]_vars

\* The same with requests that carry no user.
AuthNext ==
    \/ Next
    \/ \E h \in 1..MaxHandlers : get_forbidden(h)

AuthSpec == Init /\ [][AuthNext]_vars

\* MsgHandlers connections to the global awareness room and the frames they
\* are sent (a TransientRoom: open ends at line 156 and on_close schedules no
\* cleanup, so open_resume and _clean_room have no step here).
MsgNext ==
    \/ \E h \in 1..MsgHandlers : initialize(h, Transient)
    \/ \E h \in 1..MsgHandlers, sid \in SessionIds : open(h, sid)
    \/ \E h \in 1..MsgHandlers : serve_start(h)
    \/ \E h \in 1..MsgHandlers : serve_relay(h)
    \/ \E h \in 1..MsgHandlers : serve_end(h)
    \/ \E h \in 1..MsgHandlers, m \in Messages : on_message(h, m)
    \/ \E h \in 1..MsgHandlers : on_close(h)

MsgSpec == Init /\ [][MsgNext]_vars

\* One connection and the awareness frames it can be sent.
AwarenessNext ==
    \/ \E r \in RoomIds : initialize(1, r)
    \/ \E sid \in SessionIds : open(1, sid)
    \/ open_resume(1)
    \/ serve_start(1)
    \/ serve_relay(1)
    \/ serve_end(1)
    \/ \E m \in AwarenessMessages : on_message(1, m)
    \/ on_close(1)
    \/ clean_room_start(1)
    \/ clean_room_fire(1)

AwarenessSpec == Init /\ [][AwarenessNext]_vars

\* MsgNext with direct calls of recv, which no caller in the program makes.
RecvNext ==
    \/ MsgNext
    \/ \E h \in 1..MsgHandlers : recv(h)

RecvSpec == Init /\ [][RecvNext]_vars

SessionNext ==
    \/ \E p \in Paths, f \in FileIds : put(p, f)
    \/ \E p \in Paths : create_file(p)

SessionSpec == Init /\ [][SessionNext]_vars

\* --------------------------------------------------------- Content Loader
\* file_poll_interval: a period, or None to rely on explicit notify calls.
PollIntervals == {"None", "period"}

\* FileLoaderMapping.__getitem__ for an identity without a loader: the loader
\* is constructed, takes the timestamp of the file as it is now and, when a
\* poll interval is configured, starts its watcher.
loader_create(poll_interval) ==
    /\ loader = "absent"
    /\ loader' = "live"
    /\ last_modified' = file_mtime
    /\ watcher' = IF poll_interval = None THEN "none" ELSE "polling"
    /\ UNCHANGED <<file_mtime, subscriptions, triggered, notified>>
    /\ UNCHANGED <<hvars, tvars, rvars, gvars, svars, mvars>>

\* FileLoader.observe(id, callback).
observe(o) ==
    /\ loader = "live"
    /\ o \notin subscriptions
    /\ subscriptions' = subscriptions \cup {o}
    /\ UNCHANGED <<file_mtime, loader, last_modified, triggered, watcher, notified>>
    /\ UNCHANGED <<hvars, tvars, rvars, gvars, svars, mvars>>

\* The file is changed by someone else: its timestamp advances.
external_change ==
    /\ file_mtime < MaxTime
    /\ file_mtime' = file_mtime + 1
    /\ UNCHANGED <<loader, last_modified, subscriptions, triggered, watcher, notified>>
    /\ UNCHANGED <<hvars, tvars, rvars, gvars, svars, mvars>>

\* notify comparing with "not older" instead of "newer".
NotOlder(current, known) == current >= known

\* The timestamp read from storage is newer than the one the loader knows.
Advanced(current, known) == current > known

\* FileLoader.notify: read the timestamp of the file, call every observer
\* back when it advanced, adopt it.
Notify ==
    /\ notified < MaxNotify
    /\ notified' = notified + 1
    /\ triggered' = [o \in Observers |->
                        IF Advanced(file_mtime, last_modified) /\ o \in subscriptions
                        THEN triggered[o] + 1 ELSE triggered[o]]
    /\ last_modified' = file_mtime
    /\ UNCHANGED <<file_mtime, loader, subscriptions, watcher>>
    /\ UNCHANGED <<hvars, tvars, rvars, gvars, svars, mvars>>

\* An explicit call of notify by a holder of the loader.
notify ==
    /\ loader = "live"
    /\ Notify

\* The watcher: notify after each poll interval, for as long as the task is
\* not cancelled.
watch_file ==
    /\ watcher = "polling"
    /\ Notify

\* clean that leaves the watcher running.
KeepWatcher(w) == w

\* FileLoader.clean: the watcher task, if there is one, is cancelled.
CancelWatcher(w) == IF w = "polling" THEN "cancelled" ELSE w

\* FileLoaderMapping.clear: every loader is cleaned and the registry emptied
\* (the observers stay registered with the loader object).
clear ==
    /\ loader = "live"
    /\ loader' = "cleaned"
    /\ watcher' = CancelWatcher(watcher)
    /\ UNCHANGED <<file_mtime, last_modified, subscriptions, triggered, notified>>
    /\ UNCHANGED <<hvars, tvars, rvars, gvars, svars, mvars>>

\* A subscriber is released (unobserve); the loader left without subscribers
\* is cleaned and removed from the registry.
release(o) ==
    /\ loader = "live"
    /\ o \in subscriptions
    /\ subscriptions' = subscriptions \ {o}
    /\ IF subscriptions' = {}
       THEN /\ loader' = "cleaned"
            /\ watcher' = CancelWatcher(watcher)
       ELSE UNCHANGED <<loader, watcher>>
    /\ UNCHANGED <<file_mtime, last_modified, triggered, notified>>
    /\ UNCHANGED <<hvars, tvars, rvars, gvars, svars, mvars>>

LoaderNext ==
    \/ \E poll_interval \in PollIntervals : loader_create(poll_interval)
    \/ \E o \in Observers : observe(o)
    \/ external_change
    \/ notify
    \/ watch_file
    \/ clear
    \/ \E o \in Observers : release(o)

LoaderSpec == Init /\ [][LoaderNext]_vars

\* ================================================================ claims
IsClient(h, i) == \E k \in 1..Len(clients[i]) : clients[i][k] = h
Constructed(h) == hpc[h] \in {"constructed", "opening", "opened"}
RoomObjects == 1..nrooms
\* The cleanup task of h is scheduled and has neither run nor been cancelled.
Pending(h) == cleantask[h] \in {"created", "sleeping"}
\* The cleanup task of h has executed delete_room.
Fired(h) == cleantask[h] \in {"done", "failed"}

\* C1: connections for an identity I that are constructed while no room of I
\* has been deleted yield exactly one Room object of I: it is the registered
\* one, every such handler holds it, and add_room is never called for an
\* identity that has an entry.
C1_OneRoomPerIdentity ==
    /\ ~add_failed
    /\ \A r \in RoomIds :
        (~\E g \in Handlers : room_id[g] = r /\ Fired(g)) =>
            /\ Cardinality({i \in RoomObjects : rid[i] = r}) <= 1
            /\ \A h \in Handlers :
                (hpc[h] # "new" /\ room_id[h] = r) =>
                    /\ Constructed(h)
                    /\ hroom[h] = rooms[r]
                    /\ hroom[h] \in RoomObjects
                    /\ rid[hroom[h]] = r

\* Every handler constructed for one identity before any of them opens.
C1_Witness ==
    /\ \A h \in 1..MaxHandlers : hpc[h] = "constructed" /\ room_id[h] = DocA
    /\ nrooms = 1

\* C2: every handler that is open or about to open for identity I holds the
\* Room object registered under I, and no two Room objects of one identity
\* are in use (have a client or an attached handler) at the same time.
InUse(i) == clients[i] # <<>> \/ \E h \in Handlers : Constructed(h) /\ ~closed[h] /\ hroom[h] = i
C2_OneLiveRoom ==
    /\ \A h \in Handlers : (Constructed(h) /\ ~closed[h]) => hroom[h] = rooms[room_id[h]]
    /\ \A i, j \in RoomObjects : (i # j /\ rid[i] = rid[j]) => ~(InUse(i) /\ InUse(j))

\* C3: when a client opens a connection to a registered Document Room while
\* a cleanup of the room is pending, the open cancels the cleanup: after the
\* step no cleanup task of that room is pending (so none will execute
\* delete_room and the room stays registered), and the step changes neither
\* the registry, nor any room, nor the loaders; a cancelled task stays
\* cancelled.
C3_ReconnectCancelsCleanup ==
    [][/\ \A h \in Handlers :
            (/\ hpc[h] = "constructed" /\ hpc'[h] = "opening"
             /\ rooms[room_id[h]] = hroom[h]
             /\ \E g \in Handlers : hroom[g] = hroom[h] /\ Pending(g)) =>
                /\ \A g \in Handlers : hroom[g] = hroom[h] => ~Pending(g)'
                /\ rooms' = rooms
                /\ rvars' = rvars
                /\ loaders' = loaders
       /\ \A g \in Handlers : cleantask[g] = "cancelled" => cleantask'[g] = "cancelled"
      ]_vars

\* C4: a cleanup task removes a room from the registry only while the room
\* holds no client: when delete_room removes a registered room, its client
\* list holds no connection that is still open (stated for the connections
\* that presented the current session and whose on_close has not run, the
\* clients that are using the room).
Attached(h, i) == IsClient(h, i) /\ ~closed[h] /\ ~rejected[h]
C4_DestroyOnlyWithoutClients ==
    [][\A h \in Handlers :
        (cleantask[h] = "sleeping" /\ Fired(h)' /\ rooms[room_id[h]] = hroom[h]) =>
            \A g \in Handlers : ~Attached(g, hroom[h])
      ]_vars

\* C5: a connection that presented a session other than SERVER_SESSION is
\* never among the clients of a room, and no serve task runs for it.
C5_StaleSessionNeverClient ==
    \A h \in Handlers :
        rejected[h] => /\ \A i \in Insts : ~IsClient(h, i)
                       /\ serve[h] # "serving"

\* C6: on_close schedules a cleanup only when no other connection is in the
\* client list of the room.
C6_CleanupOnlyByLastClient ==
    [][\A h \in Handlers :
        (cleantask[h] = "none" /\ cleantask'[h] # "none") =>
            /\ IsClient(h, hroom[h])
            /\ \A g \in Handlers : g # h => ~IsClient(g, hroom[h])
      ]_vars

\* The last of two clients of a room closed and scheduled the cleanup.
C6_Witness ==
    \E h, g \in Handlers :
        /\ g # h /\ hroom[g] = hroom[h]
        /\ serve[g] = "done"
        /\ Pending(h)

\* C7: with the delay enabled, a registered Document Room whose connections
\* have all disconnected (closed, serve task over) has a cleanup task pending.
AllGone(i) ==
    /\ \E h \in Handlers : hroom[h] = i
    /\ \A h \in Handlers : hroom[h] = i => closed[h] /\ serve[h] = "done"
C7_IdleRoomIsCleaned ==
    cleanup_delay # None =>
        \A i \in RoomObjects :
            (IsDocumentRoom(i) /\ rooms[rid[i]] = i /\ AllGone(i)) =>
                \E h \in Handlers : hroom[h] = i /\ Pending(h)

\* C8: the answers of put.  A path gets an index entry only by a call that
\* answers 201 with that id, an id no path had; an entry never changes; a
\* call for an indexed path answers 200 with the indexed id and
\* SERVER_SESSION; a call answered 404 is for a path that is not in storage
\* and has no entry.
C8_SessionEndpoint ==
    [][/\ \A p \in Paths :
            /\ file_index[p] # NotIndexed => file_index'[p] = file_index[p]
            /\ (file_index[p] = NotIndexed /\ file_index'[p] # NotIndexed) =>
                /\ p \in storage
                /\ response' = [status |-> 201, path |-> p, fileId |-> file_index'[p],
                                sessionId |-> SERVER_SESSION]
                /\ \A q \in Paths : file_index[q] # file_index'[p]
       /\ response' # response =>
            /\ response'.status \in {200, 201, 404}
            /\ response'.status = 200 =>
                /\ file_index[response'.path] # NotIndexed
                /\ response'.fileId = file_index[response'.path]
                /\ response'.sessionId = SERVER_SESSION
            /\ response'.status = 201 => file_index[response'.path] = NotIndexed
            /\ response'.status = 404 =>
                /\ response'.path \notin storage
                /\ file_index'[response'.path] = NotIndexed
      ]_vars

\* A second call for the same path was answered 200.
C8_Witness == response.status = 200 /\ file_index[response.path] = response.fileId

\* C9: with document_cleanup_delay None every Room object ever registered is
\* still the one registered under its identity.
C9_NoCleanupWhenDisabled ==
    cleanup_delay = None => \A i \in RoomObjects : rooms[rid[i]] = i

\* The cleanup task of the last client ran and returned at once.
C9_Witness ==
    /\ cleanup_delay = None
    /\ \E h \in Handlers : cleantask[h] = "returned" /\ rooms[room_id[h]] = hroom[h]

\* C10: when initialize makes a room for identity r while a room of another
\* identity with the same file id is registered, the room is constructed and
\* registered, the handler is constructed, and one conflict warning for r is
\* emitted.
SameFileRegistered(r) ==
    \E q \in RoomIds :
        /\ q # r /\ room_exists(q) /\ count_colon(q) >= 2
        /\ decode_file_path(q)[3] = decode_file_path(r)[3]
C10_ConflictWarnsAndConnects ==
    [][\A h \in Handlers :
        (/\ hpc[h] = "new" /\ hpc'[h] # "new"
         /\ count_colon(room_id'[h]) >= 2
         /\ ~room_exists(room_id'[h])
         /\ SameFileRegistered(room_id'[h])) =>
            /\ hpc'[h] = "constructed"
            /\ nrooms' = nrooms + 1
            /\ rooms'[room_id'[h]] = nrooms'
            /\ hroom'[h] = nrooms'
            /\ events'[ConflictWarning(room_id'[h])] = events[ConflictWarning(room_id'[h])] + 1
      ]_vars

\* Two rooms of the same file are registered and the warning was emitted.
C10_Witness ==
    /\ room_exists(DocA) /\ room_exists(DocB)
    /\ events[ConflictWarning(DocA)] + events[ConflictWarning(DocB)] >= 1

\* C11: a connection attempt without a user is rejected before any room
\* interaction: the handler of a rejected attempt has made no Room object
\* (the one it holds was made by an earlier connection), no room is
\* registered and no loader exists for an identity only rejected attempts
\* asked for, and the handler is a client of no room.
MadeBy(i) == CHOOSE h \in Handlers : hroom[h] = i /\ \A g \in Handlers : hroom[g] = i => h <= g
C11_UnauthenticatedLeavesNoTrace ==
    \A h \in Handlers :
        hpc[h] = "forbidden" =>
            /\ MadeBy(hroom[h]) # h
            /\ \A i \in Insts : ~IsClient(h, i)
            /\ (\A g \in Handlers : room_id[g] = room_id[h] => hpc[g] = "forbidden") =>
                   /\ ~room_exists(room_id[h])
                   /\ ~loaders[room_id[h]].exists

\* C12: the frames of a connection reach the relay loop in arrival order,
\* each exactly once: at any time the frames the iterator has yielded,
\* followed by the frames still waiting in the queue, are the frames passed
\* to on_message so far, in the order they came (so no frame, awareness
\* frames included, fails to be enqueued).
IsFrame(m) == m # EndOfStream
C12_FramesInArrivalOrder ==
    \A h \in Handlers :
        yielded[h] \o SelectSeq(message_queue[h], IsFrame) = received[h]

\* C13: a failed write in send is logged and swallowed: on a relay step in
\* which a write failed, the relaying task goes on serving (nothing was
\* raised to it), no connection is closed or rejected, no client leaves a
\* room, the registries keep their entries, and every other connection keeps
\* its queue, its tasks and its position.
C13_FailedWriteIsSwallowed ==
    [][\A h \in Handlers :
           (/\ yielded'[h] # yielded[h]
            /\ \E c \in Handlers : IsClient(c, hroom[h]) /\ WriteFails(c)) =>
               /\ write_failures' > write_failures
               /\ serve'[h] = "serving"
               /\ closed' = closed /\ rejected' = rejected /\ hpc' = hpc
               /\ clients' = clients /\ cleaner' = cleaner /\ ready' = ready
               /\ rooms' = rooms /\ loaders' = loaders
               /\ cleantask' = cleantask
               /\ \A g \in Handlers \ {h} :
                      /\ message_queue'[g] = message_queue[g]
                      /\ serve'[g] = serve[g]
                      /\ yielded'[g] = yielded[g]]_vars

\* A write has failed (the recipient had been closed and was still in the
\* clients of the room) and the task that relayed the frame is still serving.
C13_Witness ==
    /\ write_failures > 0
    /\ \E h \in Handlers :
           /\ serve[h] = "serving"
           /\ hpc[h] = "opened" /\ ~closed[h] /\ ~rejected[h]
           /\ yielded[h] # <<>>
           /\ IsClient(h, hroom[h])
           /\ \E c \in Handlers \ {h} : IsClient(c, hroom[h]) /\ WriteFails(c)

\* C14: notify calls the registered observers if and only if the timestamp
\* of the file is strictly newer than the one the loader observed last, and
\* adopts the timestamp read: on every notify step each registered observer
\* is called once when the timestamp advanced and nobody is called when it
\* did not, so a second notify without a change in between calls nobody.
C14_NotifyIffAdvanced ==
    [][notified' # notified =>
           /\ last_modified' = file_mtime
           /\ \A o \in Observers :
                  triggered'[o] = IF file_mtime > last_modified /\ o \in subscriptions
                                  THEN triggered[o] + 1 ELSE triggered[o]]_vars

\* The file changed once after the loader was made, notify ran twice, and the
\* one observer was called exactly once.
C14_Witness ==
    /\ notified >= 2
    /\ file_mtime = 1
    /\ last_modified = file_mtime
    /\ \E o \in subscriptions : triggered[o] = 1

\* C15: once the loader is cleaned (registry cleared, or last subscriber
\* released) its watcher is not polling and no observer of it is called back
\* again, whatever happens to the file.
C15_NoCallbackAfterClean ==
    [][loader = "cleaned" => (watcher # "polling" /\ triggered' = triggered)]_vars

\* The registry was cleared while the watcher was polling and an observer was
\* registered, and the file changed after that: the change stays unseen.
C15_Witness ==
    /\ loader = "cleaned"
    /\ watcher = "cancelled"
    /\ subscriptions # {}
    /\ file_mtime > last_modified

\* C16: when the cleanup timer of a room fires and the room has no client,
\* the cleanup completes without error: the room is no longer registered,
\* and a loader left without subscribers is removed from the Loader Registry
\* with the "Loader deleted." event emitted.
C16_CleanupCompletes ==
    [][\A h \in Handlers :
           (/\ cleantask[h] = "sleeping"
            /\ Fired(h)'
            /\ clients[hroom[h]] = <<>>) =>
               /\ cleantask'[h] = "done"
               /\ rooms'[rid[hroom[h]]] # hroom[h]
               /\ loaders'[room_id[h]].subs = 0 =>
                      /\ ~loaders'[room_id[h]].exists
                      /\ events'[LoaderDeleted(room_id[h])] > events[LoaderDeleted(room_id[h])]]_vars

\* C17: an open with a session token that is not the server's ends the
\* connection before any room interaction: on the step that rejects the
\* connection no cleanup task is cancelled, no relay task is made for the
\* connection, room initialization is not started, and the rooms are as they
\* were.
C17_StaleOpenTouchesNothing ==
    [][\A h \in Handlers :
           (~rejected[h] /\ rejected'[h]) =>
               /\ cleantask' = cleantask
               /\ serve'[h] = "none"
               /\ hpc'[h] # "opening"
               /\ rvars' = rvars]_vars

\* C18: at any time at most one cleanup task per Room object is pending
\* (scheduled, neither cancelled nor finished).
PendingFor(i) == {h \in Handlers : hroom[h] = i /\ Pending(h)}
C18_OnePendingCleanup ==
    \A i \in Insts : Cardinality(PendingFor(i)) <= 1

\* C19: closing a connection ends its relay loop after the frames enqueued
\* before: at any time the frames yielded followed by the frames waiting are
\* the frames on_message enqueued, in order; the end-of-stream sentinel is
\* never yielded; and the iteration has stopped only if on_close was called,
\* and then every enqueued frame has been yielded.
Enqueues(m) == ~on_message_raises(m)
C19_EndOfStreamStopsRelay ==
    \A h \in Handlers :
        /\ yielded[h] \o SelectSeq(message_queue[h], IsFrame) = SelectSeq(received[h], Enqueues)
        /\ \A k \in 1..Len(yielded[h]) : yielded[h][k] # EndOfStream
        /\ serve[h] = "done" =>
               /\ closed[h]
               /\ yielded[h] = SelectSeq(received[h], Enqueues)
               /\ message_queue[h] = <<>>

\* A connection that took two frames was closed, and its relay loop yielded
\* both and stopped.
C19_Witness ==
    \E h \in Handlers :
        /\ serve[h] = "done"
        /\ closed[h]
        /\ Len(yielded[h]) = 2
        /\ yielded[h] = received[h]

\* C20: for a Document Room, the relay task of a connection is not a client
\* of the room and has relayed nothing before the room.initialize() awaited
\* by the open of that connection has completed: while open is waiting, the
\* task has not started.
C20_InitializedBeforeTraffic ==
    \A h \in Handlers :
        (hpc[h] = "opening" /\ IsDocumentRoom(hroom[h])) =>
            /\ serve[h] \in {"none", "created"}
            /\ ~IsClient(h, hroom[h])

====
